---- MODULE Spec2Model ----
(***************************************************************************)
(* sungod: the xorwow generator Ra and its typed Sample recipes.           *)
(*                                                                         *)
(* A machine word is a function from bit index (0 = least significant) to  *)
(* 0 or 1, so that every shift, xor and wrapping addition is computed at   *)
(* the full 64 (or 128) bits of the source.                                *)
(***************************************************************************)
EXTENDS Integers, Sequences, FiniteSets, TLC

\* ------------------------------------------------------------------ bounds

\* Most calls of xorwow made on one generator while it is sampled freely.
MaxDraws == 3

\* Most calls of xorwow made on one generator in a run of plain xorwow calls.
MaxWords == 24

\* Most calls of xorwow made on each generator of a pair.
MaxPairDraws == 4

\* ------------------------------------------------------------------- state

VARIABLES
    ra,        \* the generator: [state : [0..3 -> u64], counter : u64]
    ctor,      \* where ra is from: "new", "default", or "given" as a state
    seedA,     \* the seed ra was constructed from
    ptrWidth,  \* target_pointer_width of the build
    draws,     \* calls of xorwow made on ra since its construction
    outs,      \* the words those calls returned, in order
    last,      \* the last call on ra: its type, the words it drew, its result
    plain,     \* every call on ra so far was a plain xorwow()
    test,      \* tests::negative_random on ra: [pc, i], pc = "idle" when not run
    rb,        \* a second generator, NoRa until it is made
    originB,   \* how rb was made: "none", "new" or "copy"
    seedB,     \* the seed rb was constructed from, when originB = "new"
    copyAt,    \* draws made on ra before rb was copied from it
    outsB      \* the words the calls of xorwow on rb returned, in order

vars == <<ra, ctor, seedA, ptrWidth, draws, outs, last, plain, test,
          rb, originB, seedB, copyAt, outsB>>

pairVars == <<rb, originB, seedB, copyAt, outsB>>

\* ----------------------------------------------------------- machine words

\* Width of u64, the element type of Ra::state and of Ra::counter.
WordBits == 64

\* Width of u128, the intermediate type of the wide recipe.
WideBits == 128

\* The number of bits of word a.
Width(a) == Cardinality(DOMAIN a)

\* A 16-bit group given as a number, least significant bit first.
LimbBit(n, j) == (n \div (2 ^ j)) % 2

\* The u64 literal 0x<h3><h2><h1><h0>, each h a group of four hex digits.
U64(h3, h2, h1, h0) ==
    [i \in 0..(WordBits - 1) |->
        LimbBit(CASE i \div 16 = 0 -> h0
                  [] i \div 16 = 1 -> h1
                  [] i \div 16 = 2 -> h2
                  [] i \div 16 = 3 -> h3, i % 16)]

\* a ^ b
Xor(a, b) == [i \in DOMAIN a |-> (a[i] + b[i]) % 2]

\* a | b
Or(a, b) == [i \in DOMAIN a |-> IF a[i] = 1 \/ b[i] = 1 THEN 1 ELSE 0]

\* a & b
And(a, b) == [i \in DOMAIN a |-> a[i] * b[i]]

\* a << k: logical, the bits shifted out are lost.
Shl(a, k) == [i \in DOMAIN a |-> IF i >= k THEN a[i - k] ELSE 0]

\* a >> k on an unsigned word: logical, zero filled.
Shr(a, k) ==
    LET w == Width(a)
    IN [i \in DOMAIN a |-> IF i + k < w THEN a[i + k] ELSE 0]

\* Bit i of a, zero at and above the width w of a.
BitAt(a, i, w) == IF i < w THEN a[i] ELSE 0

\* The number the 16 bits of a from bit 16 * k on stand for.
Limb(a, k, w) ==
    LET o == 16 * k
    IN BitAt(a, o, w) + 2 * BitAt(a, o + 1, w) + 4 * BitAt(a, o + 2, w)
       + 8 * BitAt(a, o + 3, w) + 16 * BitAt(a, o + 4, w)
       + 32 * BitAt(a, o + 5, w) + 64 * BitAt(a, o + 6, w)
       + 128 * BitAt(a, o + 7, w) + 256 * BitAt(a, o + 8, w)
       + 512 * BitAt(a, o + 9, w) + 1024 * BitAt(a, o + 10, w)
       + 2048 * BitAt(a, o + 11, w) + 4096 * BitAt(a, o + 12, w)
       + 8192 * BitAt(a, o + 13, w) + 16384 * BitAt(a, o + 14, w)
       + 32768 * BitAt(a, o + 15, w)

\* The sums of a + b by groups of 16 bits, lowest first, each with the carry
\* out of the group below added in.
RECURSIVE LimbSums(_, _, _, _)
LimbSums(a, b, w, acc) ==
    IF 16 * Len(acc) >= w THEN acc
    ELSE LET k     == Len(acc)
             carry == IF k = 0 THEN 0 ELSE acc[k] \div 65536
         IN LimbSums(a, b, w, Append(acc, Limb(a, k, w) + Limb(b, k, w) + carry))

\* a.saturating_add(b) in place of a.wrapping_add(b): a sum that does not
\* fit is replaced by the largest word.
SaturatingAdd(a, b) ==
    LET w    == Width(a)
        sums == LimbSums(a, b, w, <<>>)
        top  == Len(sums)
    IN IF sums[top] \div (2 ^ (w - 16 * (top - 1))) > 0
       THEN [i \in DOMAIN a |-> 1]
       ELSE [i \in DOMAIN a |-> LimbBit(sums[(i \div 16) + 1], i % 16)]

\* a.wrapping_add(b): the sum modulo 2^width, the carry out of the top bit lost.
WrappingAdd(a, b) ==
    LET sums == LimbSums(a, b, Width(a), <<>>)
    IN [i \in DOMAIN a |-> LimbBit(sums[(i \div 16) + 1], i % 16)]

\* ------------------------------------------------------------ the generator

\* pub const DEFAULT_RANDOM_SEED: u64 = 0xCAFEBABEDEADBEEF
DEFAULT_RANDOM_SEED == U64(\hCAFE, \hBABE, \hDEAD, \hBEEF)

\* The four literals Ra::new xors the seed into, by index of state.
NewConstants ==
    [i \in 0..3 |->
        CASE i = 0 -> U64(\h70A7, \hA712, \hEAF0, \h7AA2)
          [] i = 1 -> U64(\hE96A, \h320D, \h4BC6, \hBDDB)
          [] i = 2 -> U64(\hBC78, \hC165, \h8C93, \h33BF)
          [] i = 3 -> U64(\hBE5B, \h6407, \h6E94, \h2A9E)]

\* The counter Ra::new starts from.
NewCounter == U64(0, 0, 0, 100)

\* Ra::new with the seed added to the literals where it should be xored in.
new_added(seed) ==
    [state   |-> [i \in 0..3 |-> WrappingAdd(NewConstants[i], seed)],
     counter |-> NewCounter]

\* Ra::new with the seed alone in every word of the state: `[seed; 4]`.
new_unmixed(seed) ==
    [state   |-> [i \in 0..3 |-> seed],
     counter |-> NewCounter]

\* Ra::new(seed)
new(seed) ==
    [state   |-> [i \in 0..3 |-> Xor(NewConstants[i], seed)],
     counter |-> NewCounter]

\* <Ra as Default>::default()
default == new(DEFAULT_RANDOM_SEED)

\* The Weyl increment of xorwow: 362437 = 0x587C5.
WeylIncrement == U64(0, 0, \h5, \h87C5)

\* Ra::xorwow with the counter a static shared by every generator (here the
\* counter of ra) where it should be the generator's own field.
xorwow_static(self) ==
    LET t0 == self.state[3]
        s  == self.state[0]
        t1 == Xor(t0, Shr(t0, 2))
        t2 == Xor(t1, Shl(t1, 2))
        t3 == Xor(t2, Xor(s, Shl(s, 4)))
        counter == WrappingAdd(ra.counter, WeylIncrement)
    IN [ra  |-> [state   |-> [i \in 0..3 |->
                                 CASE i = 0 -> t3
                                   [] i = 1 -> s
                                   [] i = 2 -> self.state[1]
                                   [] i = 3 -> self.state[2]],
                 counter |-> counter],
        out |-> WrappingAdd(t3, counter)]

\* Ra::xorwow taking `mut self` where it should take `&mut self`: Ra is Copy,
\* so the call steps a copy and the caller's generator stays as it was.
xorwow_by_value(self) ==
    LET t0 == self.state[3]
        s  == self.state[0]
        t1 == Xor(t0, Shr(t0, 2))
        t2 == Xor(t1, Shl(t1, 2))
        t3 == Xor(t2, Xor(s, Shl(s, 4)))
        counter == WrappingAdd(self.counter, WeylIncrement)
    IN [ra  |-> self,
        out |-> WrappingAdd(t3, counter)]

\* Ra::xorwow(&mut self): the generator it leaves and the word it returns.
xorwow(self) ==
    LET t0 == self.state[3]
        s  == self.state[0]
        t1 == Xor(t0, Shr(t0, 2))
        t2 == Xor(t1, Shl(t1, 2))
        t3 == Xor(t2, Xor(s, Shl(s, 4)))
        counter == WrappingAdd(self.counter, WeylIncrement)
    IN [ra  |-> [state   |-> [i \in 0..3 |->
                                 CASE i = 0 -> t3
                                   [] i = 1 -> s
                                   [] i = 2 -> self.state[1]
                                   [] i = 3 -> self.state[2]],
                 counter |-> counter],
        out |-> WrappingAdd(t3, counter)]

\* ---------------------------------------------------------- typed sampling

\* The integer types impl_sample! is invoked for with the one-draw recipe.
NarrowTypes == {"u8", "i8", "u16", "i16", "u32", "i32", "u64", "i64", "usize", "isize"}

\* The integer types impl_sample! is invoked for with the two-draw recipe.
LargeTypes == {"u128", "i128"}

\* The types impl_sample! is invoked for with the float recipe.
FloatTypes == {"f32", "f64"}

\* The widths usize and isize can have: target_pointer_width of the build.
PointerWidths == {16, 32, 64}

\* Whether integer type ty is a signed one.
Signed(ty) == ty \in {"i8", "i16", "i32", "i64", "isize", "i128"}

\* The width in bits of integer type ty on a build whose pointers have pw bits.
BitsOf(ty, pw) ==
    CASE ty \in {"u8", "i8"}       -> 8
      [] ty \in {"u16", "i16"}     -> 16
      [] ty \in {"u32", "i32"}     -> 32
      [] ty \in {"u64", "i64"}     -> 64
      [] ty \in {"usize", "isize"} -> pw
      [] ty \in {"u128", "i128"}   -> 128

\* !a
Not(a) == [i \in DOMAIN a |-> 1 - a[i]]

\* The word of the width of a that has bit k alone set.
Unit(a, k) == [i \in DOMAIN a |-> IF i = k THEN 1 ELSE 0]

\* The low w bits of x: what an `as` cast to a narrower integer keeps.
Truncate(x, w) == [i \in 0..(w - 1) |-> x[i]]

\* x widened to w bits: an `as` cast of an unsigned integer to a wider one.
ZeroExtend(x, w) ==
    LET from == Width(x)
    IN [i \in 0..(w - 1) |-> IF i < from THEN x[i] ELSE 0]

\* `x as T` for an unsigned x and an integer type T of w <= Width(x) bits: the
\* integer the cast yields, as sign and magnitude.  The low w bits are the
\* result's bit pattern; a signed T reads a pattern with its top bit set as
\* pattern - 2^w, whose magnitude is the two's complement of the pattern.
AsInt(x, w, signed) ==
    LET pattern == Truncate(x, w)
        neg     == signed /\ pattern[w - 1] = 1
    IN [neg |-> neg,
        mag |-> IF neg THEN WrappingAdd(Not(pattern), Unit(pattern, 0))
                       ELSE pattern]

\* v < 0 for an integer v
IsNegative(v) == v.neg

\* The one-draw recipe keeping the high bits of the word, `(r >> (64 - w)) as
\* Self`, where the cast keeps the low ones.
NarrowRecipeHigh(r, ty, pw) ==
    AsInt(Shr(r, WordBits - BitsOf(ty, pw)), BitsOf(ty, pw), Signed(ty))

\* The one-draw recipe with every target read as unsigned.
NarrowRecipeUnsigned(r, ty, pw) == AsInt(r, BitsOf(ty, pw), FALSE)

\* impl_sample!($ty): `ra.xorwow() as Self`, from the word r the draw returned.
NarrowRecipe(r, ty, pw) == AsInt(r, BitsOf(ty, pw), Signed(ty))

\* The two-draw recipe with the halves exchanged: the second draw shifted
\* into the high 64 bits.
LargeRecipeSwapped(first, second, ty) ==
    LET wide == Or(Shl(ZeroExtend(second, WideBits), WordBits),
                   ZeroExtend(first, WideBits))
    IN AsInt(wide, WideBits, Signed(ty))

\* impl_sample!(large $ty):
\* `((ra.xorwow() as u128) << 64 | (ra.xorwow() as u128)) as Self`,
\* from the words the first and the second draw returned.
LargeRecipe(first, second, ty) ==
    LET wide == Or(Shl(ZeroExtend(first, WideBits), WordBits),
                   ZeroExtend(second, WideBits))
    IN AsInt(wide, WideBits, Signed(ty))

\* The mask of the bool recipe one zero short: 0b10000.
BoolMaskShort == U64(0, 0, 0, 16)

\* The mask 0b100000 of the bool recipe.
BoolMask == U64(0, 0, 0, 32)

\* impl Sample for bool: `ra.xorwow() & 0b100000 == 0`.
BoolRecipe(r) == And(r, BoolMask) = U64(0, 0, 0, 0)

\* Significant bits of a float type: f32::MANTISSA_DIGITS, f64::MANTISSA_DIGITS.
MantissaDigits(ty) == IF ty = "f32" THEN 24 ELSE 53

\* Index of the highest set bit of x, -1 when x is zero.
Msb(x) ==
    LET set == {i \in DOMAIN x : x[i] = 1}
    IN IF set = {} THEN -1 ELSE CHOOSE i \in set : \A j \in set : j <= i

\* `x as f32` / `x as f64` for a u64 x: the nearest value with p significant
\* bits, ties to even.  The result is an integer of up to 65 bits (rounding
\* can carry into bit 64).
AsFloat(x, p) ==
    LET wide == ZeroExtend(x, WordBits + 1)
        drop == Msb(x) + 1 - p
    IN IF drop <= 0 THEN wide
       ELSE LET kept   == [i \in DOMAIN wide |-> IF i >= drop THEN wide[i] ELSE 0]
                half   == x[drop - 1] = 1
                sticky == \E j \in 0..(drop - 2) : x[j] = 1
                odd    == x[drop] = 1
            IN IF half /\ (sticky \/ odd)
               THEN WrappingAdd(kept, Unit(kept, drop))
               ELSE kept

\* u64::MAX
U64Max == U64(\hFFFF, \hFFFF, \hFFFF, \hFFFF)

\* impl_sample!(float $ty): `(ra.xorwow() as Self) / (u64::MAX as Self)`.
\* The divisor rounds to 2^64, a power of two, so the quotient is exact: it
\* is kept as the pair of the dividend and the divisor.
FloatRecipe(r, ty) ==
    [num |-> AsFloat(r, MantissaDigits(ty)),
     den |-> AsFloat(U64Max, MantissaDigits(ty))]

\* ------------------------------------------------- one generator, sampled

NoRa == [state |-> <<>>, counter |-> <<>>]

Zero64 == U64(0, 0, 0, 0)

\* The seeds generators are constructed from: zero, all ones, the default
\* seed, and the four literals of Ra::new (each of which zeroes one word of
\* the state).
Seeds ==
    {Zero64, U64Max, DEFAULT_RANDOM_SEED} \cup {NewConstants[i] : i \in 0..3}

NoPair ==
    /\ rb = NoRa
    /\ originB = "none"
    /\ seedB = Zero64
    /\ copyAt = 0
    /\ outsB = <<>>

\* The iterations of the loop of tests::negative_random: `for _ in 0..10`.
TestIterations == 10

\* let mut ra = Ra::new(seed);  or  let mut ra = Ra::default();
\* The generator is then either used freely or handed to the loop of
\* tests::negative_random.
Init ==
    /\ ctor \in {"new", "default"}
    /\ seedA \in IF ctor = "new" THEN Seeds ELSE {DEFAULT_RANDOM_SEED}
    /\ ra = IF ctor = "new" THEN new(seedA) ELSE default
    /\ ptrWidth \in PointerWidths
    /\ draws = 0
    /\ outs = <<>>
    /\ last = [op |-> "construct", ty |-> "Ra", raw |-> <<>>, val |-> <<>>]
    /\ plain = TRUE
    /\ test \in {[pc |-> "idle", i |-> 0], [pc |-> "loop", i |-> 0]}
    /\ NoPair

\* ra.xorwow()
NextWord ==
    /\ test.pc = "idle"
    /\ \/ draws < MaxDraws
       \/ plain /\ draws < MaxWords
    /\ LET step == xorwow(ra)
       IN /\ ra' = step.ra
          /\ outs' = Append(outs, step.out)
          /\ last' = [op |-> "xorwow", ty |-> "u64", raw |-> <<step.out>>,
                      val |-> step.out]
    /\ draws' = draws + 1
    /\ UNCHANGED <<ctor, seedA, ptrWidth, plain, test, pairVars>>

\* <ty as Sample>::sample(&mut ra) for the one-draw integer types
SampleNarrowCall(ty) ==
    /\ LET step == xorwow(ra)
       IN /\ ra' = step.ra
          /\ outs' = Append(outs, step.out)
          /\ last' = [op |-> "sample", ty |-> ty, raw |-> <<step.out>>,
                      val |-> NarrowRecipe(step.out, ty, ptrWidth)]
    /\ draws' = draws + 1
    /\ plain' = FALSE

\* ra.sample::<ty>() for the one-draw integer types
SampleNarrow(ty) ==
    /\ test.pc = "idle"
    /\ draws < MaxDraws
    /\ SampleNarrowCall(ty)
    /\ UNCHANGED <<ctor, seedA, ptrWidth, test, pairVars>>

\* ra.sample::<ty>() for u128 and i128
SampleLarge(ty) ==
    /\ test.pc = "idle"
    /\ draws + 2 <= MaxDraws
    /\ LET first  == xorwow(ra)
           second == xorwow(first.ra)
       IN /\ ra' = second.ra
          /\ outs' = outs \o <<first.out, second.out>>
          /\ last' = [op |-> "sample", ty |-> ty,
                      raw |-> <<first.out, second.out>>,
                      val |-> LargeRecipe(first.out, second.out, ty)]
    /\ draws' = draws + 2
    /\ plain' = FALSE
    /\ UNCHANGED <<ctor, seedA, ptrWidth, test, pairVars>>

\* ra.sample::<bool>()
SampleBool ==
    /\ test.pc = "idle"
    /\ draws < MaxDraws
    /\ LET step == xorwow(ra)
       IN /\ ra' = step.ra
          /\ outs' = Append(outs, step.out)
          /\ last' = [op |-> "sample", ty |-> "bool", raw |-> <<step.out>>,
                      val |-> BoolRecipe(step.out)]
    /\ draws' = draws + 1
    /\ plain' = FALSE
    /\ UNCHANGED <<ctor, seedA, ptrWidth, test, pairVars>>

\* ra.sample::<ty>() for f32 and f64
SampleFloat(ty) ==
    /\ test.pc = "idle"
    /\ draws < MaxDraws
    /\ LET step == xorwow(ra)
       IN /\ ra' = step.ra
          /\ outs' = Append(outs, step.out)
          /\ last' = [op |-> "sample", ty |-> ty, raw |-> <<step.out>>,
                      val |-> FloatRecipe(step.out, ty)]
    /\ draws' = draws + 1
    /\ plain' = FALSE
    /\ UNCHANGED <<ctor, seedA, ptrWidth, test, pairVars>>

\* tests::negative_random, one pass of its loop at a time:
\*     for _ in 0..10 { if ra.sample::<i64>() < 0 { return; } }
\*     assert!(false);
NegativeRandom ==
    /\ test.pc = "loop"
    /\ IF test.i < TestIterations
       THEN /\ SampleNarrowCall("i64")
            /\ test' = [pc |-> IF IsNegative(last'.val) THEN "returned"
                                                        ELSE "loop",
                        i  |-> test.i + 1]
       ELSE /\ test' = [test EXCEPT !.pc = "failed"]
            /\ UNCHANGED <<ra, draws, outs, last, plain>>
    /\ UNCHANGED <<ctor, seedA, ptrWidth, pairVars>>

Next ==
    \/ NextWord
    \/ \E ty \in NarrowTypes : SampleNarrow(ty)
    \/ \E ty \in LargeTypes : SampleLarge(ty)
    \/ SampleBool
    \/ \E ty \in FloatTypes : SampleFloat(ty)
    \/ NegativeRandom

Spec == Init /\ [][Next]_vars

\* ----------------------------------------------------- a pair of generators

\* A Clone written by hand that copies the state and starts the counter anew.
clone_reset(self) == [state |-> self.state, counter |-> NewCounter]

\* #[derive(Copy, Clone)] on Ra: the copy of a generator, field by field.
clone(self) == [state |-> self.state, counter |-> self.counter]

\* let mut ra = Ra::new(seed);  with no second generator yet
InitPair ==
    /\ ctor = "new"
    /\ seedA \in Seeds
    /\ ra = new(seedA)
    /\ ptrWidth = WordBits
    /\ draws = 0
    /\ outs = <<>>
    /\ last = [op |-> "construct", ty |-> "Ra", raw |-> <<>>, val |-> <<>>]
    /\ plain = TRUE
    /\ test = [pc |-> "idle", i |-> 0]
    /\ NoPair

\* ra.xorwow()
DrawA ==
    /\ draws < MaxPairDraws
    /\ LET step == xorwow(ra)
       IN /\ ra' = step.ra
          /\ outs' = Append(outs, step.out)
          /\ last' = [op |-> "xorwow", ty |-> "u64", raw |-> <<step.out>>,
                      val |-> step.out]
    /\ draws' = draws + 1
    /\ UNCHANGED <<ctor, seedA, ptrWidth, plain, test, pairVars>>

\* let mut rb = Ra::new(s);
NewB(s) ==
    /\ originB = "none"
    /\ rb' = new(s)
    /\ originB' = "new"
    /\ seedB' = s
    /\ UNCHANGED <<ra, ctor, seedA, ptrWidth, draws, outs, last, plain, test,
                   copyAt, outsB>>

\* let mut rb = ra;
CopyB ==
    /\ originB = "none"
    /\ rb' = clone(ra)
    /\ originB' = "copy"
    /\ copyAt' = draws
    /\ UNCHANGED <<ra, ctor, seedA, ptrWidth, draws, outs, last, plain, test,
                   seedB, outsB>>

\* rb.xorwow()
DrawB ==
    /\ originB # "none"
    /\ Len(outsB) < MaxPairDraws
    /\ LET step == xorwow(rb)
       IN /\ rb' = step.ra
          /\ outsB' = Append(outsB, step.out)
    /\ UNCHANGED <<ra, ctor, seedA, ptrWidth, draws, outs, last, plain, test,
                   originB, seedB, copyAt>>

NextPair ==
    \/ DrawA
    \/ \E s \in Seeds : NewB(s)
    \/ CopyB
    \/ DrawB

SpecPair == InitPair /\ [][NextPair]_vars

\* ------------------------------------------- xorwow and sample as functions

\* The generator with the given words of state and the given counter.
RaOf(s0, s1, s2, s3, c) ==
    [state   |-> [i \in 0..3 |-> CASE i = 0 -> s0 [] i = 1 -> s1
                                   [] i = 2 -> s2 [] i = 3 -> s3],
     counter |-> c]

\* Generators picked for the words their next two calls of xorwow return
\* (named before each) and for their counters.  Ra's fields are private, so
\* these stand for states far along some run: xorwow and the recipes are
\* total functions of the generator, whatever its state.
GivenStates == {
    \* zero, zero
    RaOf(U64(\h9E37, \h79B9, \h7F4A, \h7C15),
         U64(\h0000, \h0000, \h0000, \h0001),
         U64(\hB4B4, \hB4B4, \hB4A0, \h793E),
         U64(\hEE4B, \h7073, \h6BBE, \h139D),
         U64(\h0000, \h0000, \h0000, \h0064)),
    \* all ones, all ones
    RaOf(U64(\h9E37, \h79B9, \h7F4A, \h7C15),
         U64(\h0000, \h0000, \h0000, \h0001),
         U64(\h7878, \h7878, \h786C, \hB5F6),
         U64(\hAA0F, \h3437, \h2FFA, \h57D9),
         U64(\h0000, \h0000, \h0000, \h0064)),
    \* bit 5 alone, then all but bit 5
    RaOf(U64(\h9E37, \h79B9, \h7F4A, \h7C15),
         U64(\h0000, \h0000, \h0000, \h0001),
         U64(\h7878, \h7878, \h786C, \hB2F2),
         U64(\h66C3, \hF8FB, \hE336, \h9B1D),
         U64(\h0000, \h0000, \h0000, \h0064)),
    \* i64::MIN then zero: i128::MIN
    RaOf(U64(\h9E37, \h79B9, \h7F4A, \h7C15),
         U64(\h0000, \h0000, \h0000, \h0001),
         U64(\h1E1E, \h1E1E, \h1E0A, \hD394),
         U64(\h44E1, \hDAD9, \hC114, \hB937),
         U64(\h0000, \h0000, \h0000, \h0064)),
    \* i64::MAX then all ones: i128::MAX
    RaOf(U64(\h9E37, \h79B9, \h7F4A, \h7C15),
         U64(\h0000, \h0000, \h0000, \h0001),
         U64(\hD2D2, \hD2D2, \hD2C6, \h1F5C),
         U64(\h00A5, \h9E9D, \h8550, \hFD73),
         U64(\h0000, \h0000, \h0000, \h0064)),
    \* zero then all ones
    RaOf(U64(\h9E37, \h79B9, \h7F4A, \h7C15),
         U64(\h0000, \h0000, \h0000, \h0001),
         U64(\h7878, \h7878, \h786C, \hB5F2),
         U64(\hEE4B, \h7073, \h6BBE, \h139D),
         U64(\h0000, \h0000, \h0000, \h0064)),
    \* i32::MIN, i16::MIN
    RaOf(U64(\h9E37, \h79B9, \h7F4A, \h7C15),
         U64(\h0000, \h0000, \h0000, \h0001),
         U64(\h7878, \h7879, \h8793, \h2C6B),
         U64(\h5AFF, \hC4C7, \hC114, \hB937),
         U64(\h0000, \h0000, \h0000, \h0064)),
    \* i8::MIN, i8::MAX
    RaOf(U64(\h9E37, \h79B9, \h7F4A, \h7C15),
         U64(\h0000, \h0000, \h0000, \h0001),
         U64(\hF0F0, \hF0F0, \hF0E4, \h0358),
         U64(\h66C3, \hF8FB, \hE336, \h98C8),
         U64(\h0000, \h0000, \h0000, \h0064)),
    \* the f64 tie that rounds up to 2^64, the word below it
    RaOf(U64(\h9E37, \h79B9, \h7F4A, \h7C15),
         U64(\h0000, \h0000, \h0000, \h0001),
         U64(\hF0F0, \hF0F0, \hF0E4, \h2A0D),
         U64(\hAA0F, \h3437, \h2FFA, \h56C8),
         U64(\h0000, \h0000, \h0000, \h0064)),
    \* the f32 tie that rounds up to 2^64, the word below it
    RaOf(U64(\h9E37, \h79B9, \h7F4A, \h7C15),
         U64(\h0000, \h0000, \h0000, \h0001),
         U64(\hF0F0, \hF2D2, \hD2C6, \h1F58),
         U64(\h66C3, \hF8D9, \hC114, \hB937),
         U64(\h0000, \h0000, \h0000, \h0064)),
    \* counter wraps past u64::MAX
    RaOf(U64(\h9E37, \h79B9, \h7F4A, \h7C15),
         U64(\h0000, \h0000, \h0000, \h0001),
         U64(\h7CF5, \h6DE6, \h5EE3, \h8DE6),
         U64(\h1EF7, \h90DF, \hBB20, \hF1C7),
         U64(\hFFFF, \hFFFF, \hFFFF, \hFFFF)),
    \* counter wraps to zero
    RaOf(U64(\h9E37, \h79B9, \h7F4A, \h7C15),
         U64(\h0000, \h0000, \h0000, \h0001),
         U64(\h7878, \h7878, \h7879, \h0EFA),
         U64(\hEE4B, \h7073, \h6BBF, \h66C2),
         U64(\hFFFF, \hFFFF, \hFFFA, \h783B)),
    \* counter one below the wrap
    RaOf(U64(\h9E37, \h79B9, \h7F4A, \h7C15),
         U64(\h0000, \h0000, \h0000, \h0001),
         U64(\hB4B4, \hB4B4, \hB4B5, \hC234),
         U64(\h1EBB, \h8083, \h9B4F, \h9633),
         U64(\hFFFF, \hFFFF, \hFFFA, \h783A)),
    \* counter carries into bit 63
    RaOf(U64(\h9E37, \h79B9, \h7F4A, \h7C15),
         U64(\h0000, \h0000, \h0000, \h0001),
         U64(\h3C3C, \h3C3C, \h3C28, \hCE02),
         U64(\hEE4B, \h7073, \h6BBE, \h105B),
         U64(\h7FFF, \hFFFF, \hFFFF, \hFFFF))
}

\* A generator in one of the given states, or fresh from Ra::new, used freely.
InitFn ==
    /\ \/ ctor = "given" /\ seedA = Zero64 /\ ra \in GivenStates
       \/ ctor = "new" /\ seedA \in Seeds /\ ra = new(seedA)
    /\ ptrWidth \in PointerWidths
    /\ draws = 0
    /\ outs = <<>>
    /\ last = [op |-> "construct", ty |-> "Ra", raw |-> <<>>, val |-> <<>>]
    /\ plain = TRUE
    /\ test = [pc |-> "idle", i |-> 0]
    /\ NoPair

NextFn ==
    \/ NextWord
    \/ \E ty \in NarrowTypes : SampleNarrow(ty)
    \/ \E ty \in LargeTypes : SampleLarge(ty)
    \/ SampleBool
    \/ \E ty \in FloatTypes : SampleFloat(ty)

SpecFn == InitFn /\ [][NextFn]_vars

\* ------------------------------------------------------------- properties

\* Bit i of word x as a truth value; false outside the word.
B(x, i) == IF i \in DOMAIN x THEN x[i] = 1 ELSE FALSE

\* The word of w bits that stands for the number n < 2^31.
NatWord(n, w) == [i \in 0..(w - 1) |-> IF i < 31 THEN (n \div (2 ^ i)) % 2 ELSE 0]

\* The word a sequence of 16 hex digits, most significant first, stands for.
HexWord(d) == [i \in 0..63 |-> (d[16 - (i \div 4)] \div (2 ^ (i % 4))) % 2]

\* The carries of the schoolbook addition of a and b, bit by bit: element
\* i + 1 is the carry into bit i.
RECURSIVE RippleCarry(_, _, _, _)
RippleCarry(a, b, w, acc) ==
    IF Len(acc) > w THEN acc
    ELSE LET i == Len(acc) - 1
         IN RippleCarry(a, b, w, Append(acc, (a[i] + b[i] + acc[i + 1]) \div 2))

\* sum = (a + b) mod 2^w for words of w bits.
IsSum(sum, a, b) ==
    LET w == Width(a)
        c == RippleCarry(a, b, w, <<0>>)
    IN /\ DOMAIN sum = DOMAIN a
       /\ \A i \in 0..(w - 1) : sum[i] = (a[i] + b[i] + c[i + 1]) % 2

\* The integer v is what the bit pattern p stands for: read as unsigned, or,
\* when signed, as two's complement (top bit set: v = p - 2^w, so v is
\* negative and p + |v| = 2^w).
Reads(v, p, signed) ==
    LET w == Width(p)
    IN IF signed /\ p[w - 1] = 1
       THEN /\ v.neg
            /\ \E i \in DOMAIN v.mag : v.mag[i] = 1
            /\ IsSum([i \in DOMAIN p |-> 0], p, v.mag)
       ELSE /\ ~v.neg
            /\ v.mag = p

\* The step made one call of a recipe that draws, of a type in tys.
Sampled(tys) == draws' # draws /\ last'.op = "sample" /\ last'.ty \in tys

\* What C1 says one call of xorwow does to the generator old, leaving the
\* generator nw and returning out.
XorwowContract(old, nw, out) ==
    LET t == old.state[3]
        s == old.state[0]
        t1(i) == B(t, i) # B(t, i + 2)
        t2(i) == t1(i) # (i >= 2 /\ t1(i - 2))
        t3(i) == (t2(i) # B(s, i)) # B(s, i - 4)
    IN /\ DOMAIN nw.state[0] = 0..63
       /\ \A i \in 0..63 : B(nw.state[0], i) = t3(i)
       /\ nw.state[1] = old.state[0]
       /\ nw.state[2] = old.state[1]
       /\ nw.state[3] = old.state[2]
       /\ IsSum(nw.counter, old.counter, NatWord(362437, 64))
       /\ IsSum(out, nw.state[0], nw.counter)

\* C1: one call of xorwow computes t = state[3] ^ (state[3] >> 2), then
\* t ^= t << 2, then t ^= s ^ (s << 4) with s = state[0], all at 64 bits;
\* it leaves state = (t, old state[0], old state[1], old state[2]) and
\* counter = (old counter + 362437) mod 2^64, and returns
\* (t + new counter) mod 2^64.
C1_XorwowStep ==
    [][draws' = draws + 1 => XorwowContract(ra, ra', outs'[draws'])]_vars

\* C1 witness: a call of xorwow whose counter wrapped around to zero.
C1_Witness == last.op = "xorwow" /\ draws = 1 /\ ra.counter = Zero64

\* The constants and the default seed as C2 writes them.
ClaimConstants ==
    [i \in 0..3 |->
        CASE i = 0 -> HexWord(<<7, 0, 10, 7, 10, 7, 1, 2, 14, 10, 15, 0, 7, 10, 10, 2>>)
          [] i = 1 -> HexWord(<<14, 9, 6, 10, 3, 2, 0, 13, 4, 11, 12, 6, 11, 13, 13, 11>>)
          [] i = 2 -> HexWord(<<11, 12, 7, 8, 12, 1, 6, 5, 8, 12, 9, 3, 3, 3, 11, 15>>)
          [] i = 3 -> HexWord(<<11, 14, 5, 11, 6, 4, 0, 7, 6, 14, 9, 4, 2, 10, 9, 14>>)]

ClaimDefaultSeed ==
    HexWord(<<12, 10, 15, 14, 11, 10, 11, 14, 13, 14, 10, 13, 11, 14, 14, 15>>)

\* C2: Ra::new(seed) has state[i] = C[i] XOR seed for the four constants C,
\* which are pairwise distinct and non-zero, and counter = 100, for every
\* seed, zero included; Ra::default() is Ra::new(0xCAFEBABEDEADBEEF).
C2_Construction ==
    /\ \A i, j \in 0..3 : i # j => ClaimConstants[i] # ClaimConstants[j]
    /\ \A i \in 0..3 : \E b \in 0..63 : ClaimConstants[i][b] = 1
    /\ draws = 0 =>
          LET sd == IF ctor = "default" THEN ClaimDefaultSeed ELSE seedA
          IN /\ \A i \in 0..3 : \A b \in 0..63 :
                   B(ra.state[i], b) = (B(ClaimConstants[i], b) # B(sd, b))
             /\ DOMAIN ra.state = 0..3
             /\ ra.counter = NatWord(100, 64)

\* C2 witness: the generator Ra::new(0) returned.
C2_Witness == ctor = "new" /\ seedA = Zero64 /\ draws = 0 /\ test.pc = "idle"

\* C3: two generators constructed by new from the same seed and stepped by
\* xorwow alone return the same word at every draw index, and hold the same
\* state and counter after the same number of draws, however their draws
\* interleave.
C3_Determinism ==
    (originB = "new" /\ seedB = seedA) =>
        /\ \A n \in 1..Len(outs) : n <= Len(outsB) => outs[n] = outsB[n]
        /\ Len(outs) = Len(outsB) => rb = ra

\* C3 witness: both generators of the same seed have drawn, the second one
\* first and further than the first.
C3_Witness ==
    /\ originB = "new" /\ seedB = seedA
    /\ Len(outs) = 2 /\ Len(outsB) = 3
    /\ last.op = "xorwow"

\* C4: a copy of a generator, taken at any point, returns from then on the
\* words the original returns from that point, and holds the original's
\* state and counter after as many draws since the copy, however the draws
\* on the two interleave: neither is changed by draws on the other.
C4_CopyIndependent ==
    originB = "copy" =>
        /\ \A n \in 1..Len(outsB) :
              copyAt + n <= Len(outs) => outsB[n] = outs[copyAt + n]
        /\ Len(outs) = copyAt + Len(outsB) => rb = ra

\* C4 witness: a copy taken after the original drew, both having drawn
\* since, the copy further than the original.
C4_Witness ==
    /\ originB = "copy" /\ copyAt >= 1
    /\ Len(outs) = copyAt + 2 /\ Len(outsB) = 3

\* The 128-bit pattern (first << 64) | second.
Joined(first, second) ==
    [i \in 0..127 |-> IF i < 64 THEN second[i] ELSE first[i - 64]]

\* C5: a u128 or i128 sample makes exactly two calls of xorwow, one after
\* the other, and is (first << 64) | second as a 128-bit pattern, the first
\* word drawn high and the second low, read as two's complement for i128;
\* it leaves the generator where two calls of xorwow leave it.
C5_LargeSample ==
    [][Sampled({"u128", "i128"}) =>
          LET first  == xorwow(ra)
              second == xorwow(first.ra)
          IN /\ draws' = draws + 2
             /\ ra' = second.ra
             /\ last'.raw = <<first.out, second.out>>
             /\ Reads(last'.val, Joined(first.out, second.out),
                      last'.ty = "i128")]_vars

\* C5 witness: an i128 sample drawn as i64::MIN then zero, which is i128::MIN.
C5_Witness ==
    /\ last.op = "sample" /\ last.ty = "i128"
    /\ last.raw = <<Unit(Zero64, 63), Zero64>>
    /\ last.val.neg

\* C6: a bool sample makes exactly one call of xorwow and is true exactly
\* when bit 5 of the word drawn is 0, whatever its other bits are.
C6_BoolSample ==
    [][Sampled({"bool"}) =>
          LET step == xorwow(ra)
          IN /\ draws' = draws + 1
             /\ ra' = step.ra
             /\ last'.raw = <<step.out>>
             /\ last'.val = ~B(step.out, 5)]_vars

\* C6 witness: a bool sample that is true with every bit but bit 5 set.
C6_Witness ==
    /\ last.op = "sample" /\ last.ty = "bool"
    /\ last.val = TRUE
    /\ \A i \in 0..63 : i # 5 => last.raw[1][i] = 1

\* The width C7 gives each one-draw integer type.
ClaimWidth(ty) ==
    CASE ty \in {"u8", "i8"}       -> 8
      [] ty \in {"u16", "i16"}     -> 16
      [] ty \in {"u32", "i32"}     -> 32
      [] ty \in {"u64", "i64"}     -> 64
      [] ty \in {"usize", "isize"} -> ptrWidth

\* C7: a sample of a one-draw integer type of width w makes exactly one call
\* of xorwow, and its bit pattern is the low w bits of the word r drawn (r
\* itself at 64 bits); a signed type reads that pattern as two's complement,
\* so the sample is negative exactly when bit w - 1 of r is set.
C7_NarrowSample ==
    [][Sampled({"u8", "i8", "u16", "i16", "u32", "i32", "u64", "i64",
                "usize", "isize"}) =>
          LET step   == xorwow(ra)
              r      == step.out
              w      == ClaimWidth(last'.ty)
              signed == last'.ty \in {"i8", "i16", "i32", "i64", "isize"}
          IN /\ draws' = draws + 1
             /\ ra' = step.ra
             /\ last'.raw = <<r>>
             /\ Reads(last'.val, [i \in 0..(w - 1) |-> r[i]], signed)
             /\ IsNegative(last'.val) = (signed /\ B(r, w - 1))]_vars

\* C7 witness: an i64 sample of the word with bit 63 alone set: i64::MIN.
C7_Witness ==
    /\ last.op = "sample" /\ last.ty = "i64"
    /\ last.raw = <<Unit(Zero64, 63)>>
    /\ IsNegative(last.val)

\* C8: from seed 0xCAFEBABEDEADBEEF, which is also the seed of
\* Ra::default(), the first and the second word drawn differ.
C8_FirstTwoDiffer ==
    (seedA = ClaimDefaultSeed /\ draws >= 2) => outs[1] # outs[2]

\* C8 witness: two u64 samples drawn from Ra::default().
C8_Witness ==
    /\ ctor = "default" /\ draws = 2
    /\ last.op = "sample" /\ last.ty = "u64"

\* C9: i64 samples drawn from Ra::new(0xCAFEBABEDEADBEEF) include a negative
\* one, drawn from a word with bit 63 set, within the first 10 draws: the
\* loop of tests::negative_random returns and never runs out.
C9_NegativeWithinTen ==
    (ctor = "new" /\ seedA = ClaimDefaultSeed /\ test.pc # "idle") =>
        /\ test.pc # "failed"
        /\ test.pc = "loop" => test.i < 10
        /\ test.pc = "returned" =>
              /\ test.i <= 10
              /\ IsNegative(last.val)
              /\ B(last.raw[1], 63)

\* C9 witness: tests::negative_random returned from its loop.
C9_Witness ==
    /\ ctor = "new" /\ seedA = DEFAULT_RANDOM_SEED
    /\ test.pc = "returned"
    /\ last.ty = "i64"

\* C10: the four words of state are never all zero: not in Ra::new(seed) for
\* any seed, zero included, and not after any number of draws.
C10_StateNotAllZero ==
    \E i \in 0..3 : \E b \in 0..63 : ra.state[i][b] = 1

\* C10 witness: a generator that has drawn and holds a word of state that is
\* zero, from a seed equal to one of the literals of Ra::new.
C10_Witness ==
    /\ draws >= 2
    /\ \E i \in 0..3 : ra.state[i] = Zero64

====
